---- MODULE Spec2Model ----
(***************************************************************************)
(* Model of the SSE transport session manager                              *)
(* (src/src/transport/sseTransport.ts, class SSETransportServer) and of    *)
(* the tool handlers registered on its server instances                    *)
(* (src/src/tools/documentationTools.ts).                                  *)
(*                                                                         *)
(* A "channel" is one GET request on the SSE path (one push channel); a    *)
(* "message" is one POST request on the SSE path (one control message).    *)
(* The two Maps of the class, sessions and connections, are the shared     *)
(* state.  Every await of the handlers is a point where other requests and *)
(* connection events may run, so each handler is split at its awaits.      *)
(***************************************************************************)
EXTENDS Integers, Sequences, FiniteSets, TLC

\* ---------------------------------------------------------------- bounds
MaxChan == 2        \* GET requests (push channels) over the run
MaxMsg  == 2        \* POST requests (control messages) over the run
MaxSignals == 2     \* signals delivered to the listeners of one channel
MaxCall == 2        \* tool calls over the run
MaxTopic == 2       \* topic files in the data directory
MaxArgs == 2        \* command-line arguments of one invocation
MaxPage == 2        \* pages of the site that is scraped
MaxDepth == 3       \* largest maxDepth of a scraping request

Chan == 1..MaxChan
Msg  == 1..MaxMsg
Call == 1..MaxCall
Ids  == 1..MaxChan  \* session ids; one per channel is enough
NoId == 0           \* absent sessionId parameter / no id assigned yet
Undefined == 0      \* JavaScript undefined: a Map miss, or a falsy value

Signals == {"reqClose", "reqError", "resError"}

\* Request paths (transportConfig.sse.endpoints) and methods.  OtherPath
\* stands for every path that is none of the three endpoints, "DELETE" for
\* every method that is neither GET nor POST.
SsePath    == "/sse"
HealthPath == "/health"
InfoPath   == "/info"
OtherPath  == "/other"
Paths      == {SsePath, HealthPath, InfoPath, OtherPath}
Methods    == {"GET", "POST", "DELETE"}

VARIABLES
  server,       \* this.server: "null", "listening", "closing", "closed"
  stopState,    \* promise of stop(): "none", "pending", "resolved", "rejected"
  sessions,     \* this.sessions: set of <<sessionId, transport>>, transport named by its channel
  connections,  \* this.connections: insertion-ordered sequence of <<sessionId, connection>>
  gpc,          \* per channel: position of the GET handler
  sid,          \* per channel: transport.sessionId
  stream,       \* per channel: the response stream (push channel)
  inst,         \* per channel: the McpServer instance constructed for it
  gstatus,      \* per channel: status line committed on the GET response (0: none)
  fired,        \* per channel: number of signals its listeners have handled
  torn,         \* per channel: number of sessions entries its listeners have removed
  wlog,         \* per channel: the events written on its stream, in order
  gwrites,      \* per channel: number of times a status line was written on the GET response
  bound,        \* per channel: the server instance connected to its transport
  mpc,          \* per message: position of the POST handler
  mid,          \* per message: its sessionId parameter
  mstatus,      \* per message: status committed on the POST response (0: none)
  mwrites,      \* per message: number of times a status line was written
  mreads,       \* per message: number of registry lookups made
  mout,         \* per message: outcome of transport.handlePostMessage
  handed,       \* per message: the transports (channels) it was handed to, in order
  resp,         \* the answer to the last request that was neither an open nor a message
  servicesInitialized,  \* documentationTools.ts: let servicesInitialized
  initialized,  \* documentationService.initialized
  topics,       \* documentationService.topics: sequence of topic ids
  tpc,          \* per tool call: position of its handler
  tsess,        \* per tool call: the session (channel) it came through
  tpos,         \* per tool call: files its run of loadTopicsFromFilesystem has read
  tresult,      \* per tool call: the topics its response lists
  tkind,        \* per tool call: the handler called ("topics", "content", "scrape")
  targ,         \* per tool call: the topic id asked for (0: none)
  tresp,        \* per tool call: what failed in the services, and the response text
  cliState,     \* parseArgs: "idle", "parsing", "returned", "threw"
  args,         \* parseArgs: the argument list, each argument a sequence of characters
  argi,         \* parseArgs: the loop index (from 1)
  options,      \* parseArgs: the options object
  cliError,     \* parseArgs: the error thrown
  cpc,          \* scrapeWebsite: "idle", "running", "returned", "threw"
  graph,        \* scrapeWebsite: per page of the site, the links found on it, in order
  copts,        \* scrapeWebsite: maxDepth and followLinks of the request
  visited,      \* scrapeWebsite: the set visited
  fetched,      \* scrapeWebsite: the pages fetched with their depth, in order
  stack,        \* scrapeWebsite: the pending calls of scrapePage, innermost last
  linksCollected \* scrapeWebsite: the set linksCollected

vars == <<server, stopState, sessions, connections, gpc, sid, stream,
          inst, gstatus, fired, torn, wlog, gwrites, bound,
          mpc, mid, mstatus, mwrites, mreads, mout, handed,
          resp, servicesInitialized, initialized, topics, tpc, tsess, tpos, tresult,
          tkind, targ, tresp,
          cliState, args, argi, options, cliError,
          cpc, graph, copts, visited, fetched, stack, linksCollected>>

chanVars == <<gpc, sid, stream, inst, gstatus, fired, torn, wlog, gwrites, bound>>
msgVars  == <<mpc, mid, mstatus, mwrites, mreads, mout, handed>>
toolVars == <<servicesInitialized, initialized, topics, tpc, tsess, tpos, tresult,
              tkind, targ, tresp>>
cliVars  == <<cliState, args, argi, options, cliError>>
crawlVars == <<cpc, graph, copts, visited, fetched, stack, linksCollected>>
otherVars == <<cliVars, crawlVars>>
sseVars  == <<server, stopState, sessions, connections, chanVars, msgVars, resp>>

\* ------------------------------------------------------- Map operations
\* Map<string, SSEServerTransport> as a set of key/value pairs.
MapHas(m, k)    == \E p \in m : p[1] = k
MapGet(m, k)    == IF MapHas(m, k) THEN (CHOOSE p \in m : p[1] = k)[2] ELSE Undefined
MapSet(m, k, v) == {p \in m : p[1] # k} \cup {<<k, v>>}
MapDelete(m, k) == {p \in m : p[1] # k}
MapSize(m)      == Cardinality(m)
MapKeys(m)      == {p[1] : p \in m}

\* Map<string, any> as a sequence of key/value pairs, in insertion order
\* (stop() iterates it).
ConnHas(s, k)    == \E i \in DOMAIN s : s[i][1] = k
ConnGet(s, k)    == IF ConnHas(s, k)
                    THEN s[CHOOSE i \in DOMAIN s : s[i][1] = k][2]
                    ELSE Undefined
ConnSet(s, k, v) == IF ConnHas(s, k)
                    THEN [i \in DOMAIN s |-> IF s[i][1] = k THEN <<k, v>> ELSE s[i]]
                    ELSE Append(s, <<k, v>>)
ConnDelete(s, k) == SelectSeq(s, LAMBDA p : p[1] # k)
ConnKeys(s)      == {s[i][1] : i \in DOMAIN s}

\* ------------------------------------------------------------- library
\* new SSEServerTransport(...) mints transport.sessionId as a random UUID:
\* an id different from every id minted before.
\* (NewSessionIdsAny: a faulty variant that may repeat an id.)
NewSessionIdsAny(usedIds) == Ids
NewSessionIds(usedIds) == Ids \ usedIds
Used == {sid[c] : c \in Chan} \ {NoId}

\* The value serverInstance.connect(transport) resolves to, for channel c:
\* a connection object (named by the channel of the instance it closes) or
\* undefined.  The code stores it untested in an any-typed Map.
ConnectResults(c) == {c, Undefined}

\* connection.close() on a set of connection objects: the server instance is
\* closed and with it its transport, which ends the response stream.
CloseInst(i, conns)   == [c \in Chan |-> IF c \in conns /\ i[c] # "none" THEN "closed" ELSE i[c]]
CloseStream(s, conns) == [c \in Chan |-> IF c \in conns /\ s[c] = "open" THEN "closed" ELSE s[c]]

\* Server instances.  MainServer is the one handed to the constructor of
\* SSETransportServer (this.mcpServer); the instance that new McpServer(...)
\* constructs inside the open of channel c is named c.
NoInst     == 0
MainServer == MaxChan + 1

\* ------------------------------------------------------------ parseArgs
\* src/src/utils/cli.ts.  A string is a sequence of characters.
StrTransport      == <<"-", "-", "t", "r", "a", "n", "s", "p", "o", "r", "t">>
StrT              == <<"-", "t">>
StrPort           == <<"-", "-", "p", "o", "r", "t">>
StrP              == <<"-", "p">>
StrHelp           == <<"-", "-", "h", "e", "l", "p">>
StrStdio          == <<"s", "t", "d", "i", "o">>
StrSse            == <<"s", "s", "e">>
\* What an absent array element (undefined) reads as when used as a string.
UndefinedStr      == <<"undefined">>

\* The arguments tried: the forms of the help text and their neighbours.
ArgForms ==
  {
   <<"-", "-", "t", "r", "a", "n", "s", "p", "o", "r", "t">>,   \* --transport
   <<"-", "t">>,   \* -t
   <<"s", "s", "e">>,   \* sse
   <<"s", "t", "d", "i", "o">>,   \* stdio
   <<"-", "-", "t", "r", "a", "n", "s", "p", "o", "r", "t", "=", "s", "s", "e">>,   \* --transport=sse
   <<"-", "t", "=", "s", "s", "e">>,   \* -t=sse
   <<"-", "-", "t", "r", "a", "n", "s", "p", "o", "r", "t", "=", "s", "t", "d", "i", "o">>,   \* --transport=stdio
   <<"-", "-", "t", "r", "a", "n", "s", "p", "o", "r", "t", "=", "f", "o", "o">>,   \* --transport=foo
   <<"-", "-", "p", "o", "r", "t">>,   \* --port
   <<"-", "p">>,   \* -p
   <<"8", "0", "8", "0">>,   \* 8080
   <<"-", "-", "p", "o", "r", "t", "=", "8", "0", "8", "0">>,   \* --port=8080
   <<"-", "p", "=", "8", "0", "8", "0">>,   \* -p=8080
   <<"-", "-", "p", "o", "r", "t", "=", "0">>,   \* --port=0
   <<"-", "-", "p", "o", "r", "t", "=", "1">>,   \* --port=1
   <<"-", "-", "p", "o", "r", "t", "=", "6", "5", "5", "3", "5">>,   \* --port=65535
   <<"-", "-", "p", "o", "r", "t", "=", "6", "5", "5", "3", "6">>,   \* --port=65536
   <<"-", "-", "p", "o", "r", "t", "=", "a", "b", "c">>,   \* --port=abc
   <<"-", "-", "p", "o", "r", "t", "=", "8", "0", "a", "b", "c">>,   \* --port=80abc
   <<"-", "-", "p", "o", "r", "t", "=">>,   \* --port=
   <<"-", "-", "p", "o", "r", "t", "=", "-", "5">>,   \* --port=-5
   <<"-", "-", "h", "o", "s", "t">>,   \* --host
   <<"0", ".", "0", ".", "0", ".", "0">>,   \* 0.0.0.0
   <<"-", "-", "h", "o", "s", "t", "=", "0", ".", "0", ".", "0", ".", "0">>,   \* --host=0.0.0.0
   <<"-", "-", "h", "e", "l", "p">>,   \* --help
   <<"-", "x">>,   \* -x
   <<"f", "i", "l", "e">>    \* file
  }
ArgLists == UNION {[1..n -> ArgForms] : n \in 0..MaxArgs}

\* arg.split("=")[0] and arg.split("=")[1]
EqAt(str, from) ==
  IF \E i \in from..Len(str) : str[i] = "="
  THEN CHOOSE i \in from..Len(str) : str[i] = "=" /\ \A j \in from..(i-1) : str[j] # "="
  ELSE Len(str) + 1
SplitEq0(str) == SubSeq(str, 1, EqAt(str, 1) - 1)
SplitEq1(str) ==
  IF EqAt(str, 1) > Len(str) THEN UndefinedStr
  ELSE SubSeq(str, EqAt(str, 1) + 1, EqAt(str, EqAt(str, 1) + 1) - 1)

\* arg.startsWith("-")
StartsWithDash(str) == str # <<>> /\ str[1] = "-"

\* parseInt(str, 10): an optional sign, then the longest run of decimal
\* digits; what follows the run is ignored; NaN if the run is empty.
Digits == {"0", "1", "2", "3", "4", "5", "6", "7", "8", "9"}
DigitVal(ch) ==
  CASE ch = "0" -> 0 [] ch = "1" -> 1 [] ch = "2" -> 2 [] ch = "3" -> 3 [] ch = "4" -> 4
    [] ch = "5" -> 5 [] ch = "6" -> 6 [] ch = "7" -> 7 [] ch = "8" -> 8 [] ch = "9" -> 9
RECURSIVE NumVal(_)
NumVal(ds) ==
  IF ds = <<>> THEN 0
  ELSE 10 * NumVal(SubSeq(ds, 1, Len(ds) - 1)) + DigitVal(ds[Len(ds)])
DigitRun(str, from) ==
  CHOOSE n \in 0..(Len(str) - from + 1) :
    /\ \A i \in from..(from + n - 1) : str[i] \in Digits
    /\ (from + n <= Len(str)) => str[from + n] \notin Digits
ParseInt(str) ==
  LET signed == str # <<>> /\ str[1] \in {"-", "+"}
      from   == IF signed THEN 2 ELSE 1
      n      == DigitRun(str, from)
      mag    == NumVal(SubSeq(str, from, from + n - 1))
  IN  IF n = 0 THEN [nan |-> TRUE, val |-> 0]
      ELSE [nan |-> FALSE, val |-> IF signed /\ str[1] = "-" THEN 0 - mag ELSE mag]

\* if (isNaN(port) || port < 1 || port > 65535)
MinPort == 1
MaxPort == 65535
InvalidPort(pt) == pt.nan \/ pt.val < MinPort \/ pt.val > MaxPort

\* const options = { transport: "stdio" }; port and host are absent.
NoPort == 0
NoHost == <<>>
DefaultOptions == [transport |-> StrStdio, port |-> NoPort, host |-> NoHost, help |-> FALSE]

\* ---------------------------------------------------------- front door
\* The request listener of start(): the SSE path is handled on the raw
\* request, every other path is given to the Express application.
\* (RawHandlesNever: a faulty variant that gives every request to Express.)
RawHandlesNever(p) == FALSE
RawHandles(p) == p = SsePath

\* setupRoutes(): the Express routes in the order they are registered.  The
\* middleware before them (CORS, JSON body, logging) passes the request on.
\* The last route answers 404, except that it returns without answering on
\* the SSE path.
ExpressRoute(p, me) ==
  IF me = "GET" /\ p = HealthPath THEN "health"
  ELSE IF me = "GET" /\ p = InfoPath THEN "info"
  ELSE IF p = SsePath THEN "unanswered"
  ELSE "notFound"

Dispatch(p, me) == IF RawHandles(p) THEN "sse" ELSE ExpressRoute(p, me)

\* availableEndpoints of the 404 body, endpoints of the /info body.
KnownEndpoints == {HealthPath, InfoPath, SsePath}

\* activeSessions of the /health and /info bodies: this.sessions.size.
\* (ActiveSessionsConnections: a faulty variant that counts connections.)
ActiveSessionsConnections == Len(connections)
ActiveSessions == MapSize(sessions)

NoResp == [path |-> "", method |-> "", handler |-> "none", status |-> 0,
           error |-> "", writes |-> 0, active |-> -1, endpoints |-> {}]

\* The last branch of handleSSEConnection: the method is neither GET nor POST.
\* (MethodNotAllowedLenient: a faulty variant that answers such a request 200.)
MethodNotAllowedLenient == [status |-> 200, error |-> ""]
MethodNotAllowed == [status |-> 405, error |-> "Method not allowed"]

\* The answer to request (p, me) when it is neither GET nor POST on the SSE
\* path: the 405 of handleSSEConnection, or what the Express route sends.
Answer(p, me) ==
  LET h == Dispatch(p, me) IN
  [path |-> p, method |-> me, handler |-> h,
   status |-> CASE h = "sse" -> MethodNotAllowed.status
                [] h \in {"health", "info"} -> 200
                [] h = "notFound" -> 404
                [] OTHER -> 0,
   error |-> IF h = "sse" THEN MethodNotAllowed.error ELSE "",
   writes |-> IF h = "unanswered" THEN 0 ELSE 1,
   active |-> IF h \in {"health", "info"} THEN ActiveSessions ELSE -1,
   endpoints |-> IF h \in {"info", "notFound"} THEN KnownEndpoints ELSE {}]

Init ==
  /\ server = "null"
  /\ stopState = "none"
  /\ sessions = {}
  /\ connections = <<>>
  /\ gpc = [c \in Chan |-> "idle"]
  /\ sid = [c \in Chan |-> NoId]
  /\ stream = [c \in Chan |-> "none"]
  /\ inst = [c \in Chan |-> "none"]
  /\ gstatus = [c \in Chan |-> 0]
  /\ fired = [c \in Chan |-> 0]
  /\ torn = [c \in Chan |-> 0]
  /\ wlog = [c \in Chan |-> <<>>]
  /\ gwrites = [c \in Chan |-> 0]
  /\ bound = [c \in Chan |-> NoInst]
  /\ mpc = [m \in Msg |-> "idle"]
  /\ mid = [m \in Msg |-> NoId]
  /\ mstatus = [m \in Msg |-> 0]
  /\ mwrites = [m \in Msg |-> 0]
  /\ mreads = [m \in Msg |-> 0]
  /\ mout = [m \in Msg |-> "none"]
  /\ handed = [m \in Msg |-> <<>>]
  /\ resp = NoResp
  /\ servicesInitialized = FALSE
  /\ initialized = FALSE
  /\ topics = <<>>
  /\ tpc = [t \in Call |-> "idle"]
  /\ tsess = [t \in Call |-> 0]
  /\ tpos = [t \in Call |-> 0]
  /\ tresult = [t \in Call |-> <<>>]
  /\ tkind = [t \in Call |-> "none"]
  /\ targ = [t \in Call |-> 0]
  /\ tresp = [t \in Call |-> [cause |-> "none", text |-> "none"]]
  /\ cliState = "idle"
  /\ args = <<>>
  /\ argi = 1
  /\ options = DefaultOptions
  /\ cliError = "none"
  /\ cpc = "idle"
  /\ graph = [p \in 1..MaxPage |-> {}]
  /\ copts = [url |-> <<1, "href">>, maxDepth |-> 1, followLinks |-> FALSE]
  /\ visited = {}
  /\ fetched = <<>>
  /\ stack = <<>>
  /\ linksCollected = {}

\* start(): the HTTP server is created and listens.  It is called once, by
\* startSSETransport, before the shutdown handlers are installed.
Start ==
  /\ server = "null"
  /\ stopState = "none"
  /\ server' = "listening"
  /\ UNCHANGED <<stopState, sessions, connections, chanVars, msgVars, resp, toolVars>>
  /\ UNCHANGED otherVars

\* ------------------------------------------------ GET: push-channel open
OpenOutcomes == {"transportThrows", "serverThrows", "connectNotStarted", "started"}

\* handleSSEConnection, GET branch, from entry to the await of
\* serverInstance.connect(transport).  o is what the library calls do:
\*   transportThrows    new SSEServerTransport throws
\*   serverThrows       new McpServer / registerToolsOnServer throws
\*   connectNotStarted  connect() is pending and has not started the stream
\*   started            connect() is pending and has started the stream
\*                      (status 200, event-stream head and the handshake event)
\* A synchronous throw runs the catch block: 500 if nothing was committed.

\* What is written on the response stream up to the await.  The handler only
\* sets headers (144-149); connect() starts the transport, whose first write
\* is the handshake event carrying the session id.
\* (OpenWritesEarly: a faulty variant that writes a comment line first.)
OpenWritesEarly(o, id) ==
  IF o = "started" THEN <<<<"comment", NoId>>, <<"handshake", id>>>> ELSE <<>>
OpenWrites(o, id) == IF o = "started" THEN <<<<"handshake", id>>>> ELSE <<>>

\* The instance that the open of channel c connects to its transport.
\* (NewInstanceMain: a faulty variant that connects this.mcpServer.)
NewInstanceMain(c) == MainServer
NewInstance(c) == c

\* The catch block of the GET branch writes 500 only if (!res.headersSent);
\* st is the status already committed (0: none).
OpenCatchWrites(st) == st = 0

\* OpenSession is the handler for a transport whose sessionId is id;
\* GetOpen is the handler with the id the library mints.
OpenSession(c, o, id) ==
  /\ server = "listening"
  /\ Dispatch(SsePath, "GET") = "sse"
  /\ gpc[c] = "idle"
  /\ \A b \in Chan : b < c => gpc[b] # "idle"      \* channels are numbered by arrival
  /\ IF o = "transportThrows"
     THEN /\ id = NoId
          /\ gpc' = [gpc EXCEPT ![c] = "failed"]
          /\ gstatus' = [gstatus EXCEPT ![c] = 500]
          /\ gwrites' = [gwrites EXCEPT ![c] = @ + 1]
          /\ UNCHANGED <<sessions, sid, stream, inst, bound>>
     ELSE /\ id \in Ids
          /\ sid' = [sid EXCEPT ![c] = id]
          /\ sessions' = MapSet(sessions, id, c)
          /\ CASE o = "serverThrows" ->
                    /\ gpc' = [gpc EXCEPT ![c] = "failed"]
                    /\ gstatus' = [gstatus EXCEPT ![c] = 500]
                    /\ gwrites' = [gwrites EXCEPT ![c] = @ + 1]
                    /\ UNCHANGED <<stream, inst, bound>>
               [] o = "connectNotStarted" ->
                    /\ gpc' = [gpc EXCEPT ![c] = "connecting"]
                    /\ inst' = [inst EXCEPT ![c] = "created"]
                    /\ bound' = [bound EXCEPT ![c] = NewInstance(c)]
                    /\ UNCHANGED <<stream, gstatus, gwrites>>
               [] o = "started" ->
                    /\ gpc' = [gpc EXCEPT ![c] = "connecting"]
                    /\ inst' = [inst EXCEPT ![c] = "created"]
                    /\ bound' = [bound EXCEPT ![c] = NewInstance(c)]
                    /\ stream' = [stream EXCEPT ![c] = "open"]
                    /\ gstatus' = [gstatus EXCEPT ![c] = 200]
                    /\ gwrites' = [gwrites EXCEPT ![c] = @ + 1]
  /\ wlog' = [wlog EXCEPT ![c] = @ \o OpenWrites(o, id)]
  /\ UNCHANGED <<server, stopState, connections, fired, torn, msgVars, resp, toolVars>>
  /\ UNCHANGED otherVars

GetOpen(c, o, id) ==
  /\ o # "transportThrows" => id \in NewSessionIds(Used)
  /\ OpenSession(c, o, id)

\* handleSSEConnection, GET branch, after the await: connect() resolved with
\* r, so the connection is stored and the three listeners are attached.
GetConnected(c, r) ==
  /\ gpc[c] = "connecting"
  /\ stream[c] # "none"
  /\ r \in ConnectResults(c)
  /\ connections' = ConnSet(connections, sid[c], r)
  /\ inst' = [inst EXCEPT ![c] = IF @ = "created" THEN "connected" ELSE @]
  /\ gpc' = [gpc EXCEPT ![c] = "established"]
  /\ UNCHANGED <<server, stopState, sessions, sid, stream, gstatus,
                 fired, torn, wlog, gwrites, bound, msgVars, resp, toolVars>>
  /\ UNCHANGED otherVars

\* handleSSEConnection, GET branch, after the await: connect() rejected.  The
\* catch block answers 500 only if no headers were sent; otherwise it logs.
GetConnectFailed(c) ==
  /\ gpc[c] = "connecting"
  /\ gpc' = [gpc EXCEPT ![c] = "failed"]
  /\ gstatus' = [gstatus EXCEPT ![c] = IF OpenCatchWrites(@) THEN 500 ELSE @]
  /\ gwrites' = [gwrites EXCEPT ![c] = IF OpenCatchWrites(gstatus[c]) THEN @ + 1 ELSE @]
  /\ UNCHANGED <<server, stopState, sessions, connections, sid, stream,
                 inst, fired, torn, wlog, bound, msgVars, resp, toolVars>>
  /\ UNCHANGED otherVars

\* ------------------------------------------- connection signals, teardown
\* The body shared by the req 'close', req 'error' and res 'error' listeners
\* of channel c.  (TeardownSessionsKeep and TeardownSessionsAll are faulty
\* variants of the delete: one removes nothing, one removes every entry.)
TeardownSessionsKeep(c) == sessions
TeardownSessionsAll(c)  == {}
TeardownSessions(c)    == MapDelete(sessions, sid[c])
TeardownConn(c)        == ConnGet(connections, sid[c])
TeardownClosed(c)      == IF TeardownConn(c) # Undefined THEN {TeardownConn(c)} ELSE {}
TeardownConnections(c) == IF TeardownConn(c) # Undefined
                          THEN ConnDelete(connections, sid[c])
                          ELSE connections

\* (ListenersAttachedIdle: a faulty variant whose listeners wait while a
\* message of the session is being processed.)
ListenersAttachedIdle(c) ==
  /\ gpc[c] = "established"
  /\ ~\E m \in Msg : mpc[m] = "processing" /\ handed[m] = <<c>>
ListenersAttached(c) == gpc[c] = "established"

\* The client goes away or the connection breaks: signal s (req 'close',
\* req 'error' or res 'error') fires on channel c.  The stream is over; the
\* listener of s runs only if it has been attached.  The three listeners
\* have the same body.
Signal(c, s) ==
  /\ gpc[c] \in {"connecting", "established"} \/ (gpc[c] = "failed" /\ stream[c] = "open")
  /\ IF ListenersAttached(c)
     THEN /\ fired[c] < MaxSignals
          /\ fired' = [fired EXCEPT ![c] = @ + 1]
          /\ sessions' = TeardownSessions(c)
          /\ connections' = TeardownConnections(c)
          /\ inst' = CloseInst(inst, TeardownClosed(c))
          /\ stream' = CloseStream([stream EXCEPT ![c] = IF @ = "open" THEN "closed" ELSE @],
                                   TeardownClosed(c))
          /\ torn' = [torn EXCEPT ![c] = @ + Cardinality(sessions \ TeardownSessions(c))]
     ELSE /\ stream' = [stream EXCEPT ![c] = IF @ = "open" THEN "closed" ELSE @]
          /\ UNCHANGED <<sessions, connections, inst, torn, fired>>
  /\ UNCHANGED <<server, stopState, gpc, sid, gstatus, wlog, gwrites, bound, msgVars,
                 resp, toolVars>>
  /\ UNCHANGED otherVars

\* --------------------------------------------- POST: control message
\* if (!sessionId): the parameter is absent (or empty).
\* (MissingSessionIdNever: a faulty variant that lets every request through.)
MissingSessionIdNever(id) == FALSE
MissingSessionId(id) == id = NoId

\* this.sessions.get(sessionId)
\* (SessionLookupAny falls back to some registered session on a miss;
\* SessionLookupOther returns another session's transport: faulty variants.)
SessionLookupAny(id) ==
  IF MapHas(sessions, id) THEN MapGet(sessions, id)
  ELSE IF sessions = {} THEN Undefined ELSE (CHOOSE p \in sessions : TRUE)[2]
SessionLookupOther(id) ==
  IF \E p \in sessions : p[1] # id
  THEN (CHOOSE p \in sessions : p[1] # id)[2]
  ELSE MapGet(sessions, id)
SessionLookup(id) == MapGet(sessions, id)

\* handleSSEConnection, POST branch, from entry to the await of
\* transport.handlePostMessage(req, res).
PostArrive(m, id) ==
  /\ server = "listening"
  /\ Dispatch(SsePath, "POST") = "sse"
  /\ mpc[m] = "idle"
  /\ \A k \in Msg : k < m => mpc[k] # "idle"       \* messages are numbered by arrival
  /\ mid' = [mid EXCEPT ![m] = id]
  /\ IF MissingSessionId(id)
     THEN /\ mstatus' = [mstatus EXCEPT ![m] = 400]
          /\ mwrites' = [mwrites EXCEPT ![m] = @ + 1]
          /\ mpc' = [mpc EXCEPT ![m] = "done"]
          /\ UNCHANGED <<mreads, handed>>
     ELSE /\ mreads' = [mreads EXCEPT ![m] = @ + 1]
          /\ IF SessionLookup(id) = Undefined
             THEN /\ mstatus' = [mstatus EXCEPT ![m] = 404]
                  /\ mwrites' = [mwrites EXCEPT ![m] = @ + 1]
                  /\ mpc' = [mpc EXCEPT ![m] = "done"]
                  /\ UNCHANGED handed
             ELSE /\ handed' = [handed EXCEPT ![m] = Append(@, SessionLookup(id))]
                  /\ mpc' = [mpc EXCEPT ![m] = "processing"]
                  /\ UNCHANGED <<mstatus, mwrites>>
  /\ UNCHANGED <<server, stopState, sessions, connections, chanVars, mout, resp, toolVars>>
  /\ UNCHANGED otherVars

PostOutcomes == {"accepted", "threwUnsent", "threwSent"}

\* The catch block around handlePostMessage: with st the status already
\* committed (0: none), it writes 500 only if (!res.headersSent).
\* (PostCatchStatusNone: a faulty variant that never answers;
\* PostCatchWritesAlways: one that answers without looking at headersSent.)
PostCatchWritesAlways(st) == TRUE
PostCatchWrites(st) == st = 0
PostCatchStatusNone(st) == st
PostCatchStatus(st) == IF PostCatchWrites(st) THEN 500 ELSE st

\* A message the transport accepted is answered on the stream of its
\* session, if that stream is open: the reply is pushed after what was
\* written before.
PushReply(log, st, id) == IF st = "open" THEN Append(log, <<"reply", id>>) ELSE log

\* handleSSEConnection, POST branch, after the await.  o is what
\* handlePostMessage did:
\*   accepted     it answered the request itself (202)
\*   threwUnsent  it threw before committing a response
\*   threwSent    it committed its own error response (500) and then threw
PostFinish(m, o) ==
  /\ mpc[m] = "processing"
  /\ mpc' = [mpc EXCEPT ![m] = "done"]
  /\ mout' = [mout EXCEPT ![m] = IF o = "accepted" THEN "accepted" ELSE "threw"]
  /\ CASE o = "accepted" ->
            /\ mstatus' = [mstatus EXCEPT ![m] = 202]
            /\ mwrites' = [mwrites EXCEPT ![m] = @ + 1]
       [] o = "threwSent" ->
            /\ mstatus' = [mstatus EXCEPT ![m] = PostCatchStatus(500)]
            /\ mwrites' = [mwrites EXCEPT ![m] = @ + 1 + IF PostCatchWrites(500) THEN 1 ELSE 0]
       [] o = "threwUnsent" ->
            /\ mstatus' = [mstatus EXCEPT ![m] = PostCatchStatus(0)]
            /\ mwrites' = [mwrites EXCEPT ![m] = IF PostCatchStatus(0) # 0 THEN @ + 1 ELSE @]
  /\ wlog' = IF o = "accepted"
             THEN [wlog EXCEPT ![handed[m][1]] = PushReply(@, stream[handed[m][1]], mid[m])]
             ELSE wlog
  /\ UNCHANGED <<server, stopState, sessions, connections,
                 gpc, sid, stream, inst, gstatus, fired, torn, gwrites, bound,
                 mid, mreads, handed, resp, toolVars>>
  /\ UNCHANGED otherVars

\* ------------------------------------------------------------- stop()
\* Index of the first connections entry whose value is undefined (the loop
\* of stop() throws a TypeError on it); Len + 1 if there is none.
FirstUndefined(s) ==
  IF \E i \in DOMAIN s : s[i][2] = Undefined
  THEN CHOOSE i \in DOMAIN s : /\ s[i][2] = Undefined
                               /\ \A j \in 1..(i-1) : s[j][2] # Undefined
  ELSE Len(s) + 1

StopClosed == {connections[i][2] : i \in 1..(FirstUndefined(connections) - 1)}

\* stop(): the promise executor.  A throw inside it rejects the promise and
\* skips the rest.
Stop ==
  /\ stopState = "none"
  /\ inst' = CloseInst(inst, StopClosed)
  /\ stream' = CloseStream(stream, StopClosed)
  /\ IF FirstUndefined(connections) <= Len(connections)
     THEN /\ stopState' = "rejected"
          /\ UNCHANGED <<server, sessions, connections>>
     ELSE /\ connections' = <<>>
          /\ sessions' = {}
          /\ IF server = "listening"
             THEN /\ server' = "closing"
                  /\ stopState' = "pending"
             ELSE /\ stopState' = "resolved"
                  /\ UNCHANGED server
  /\ UNCHANGED <<gpc, sid, gstatus, fired, torn, wlog, gwrites, bound, msgVars,
                 resp, toolVars>>
  /\ UNCHANGED otherVars

\* The callback of this.server.close(): runs once every connection has ended.
StopResolved ==
  /\ server = "closing"
  /\ \A c \in Chan : stream[c] # "open" /\ gpc[c] # "connecting"
  /\ \A m \in Msg : mpc[m] # "processing"
  /\ server' = "closed"
  /\ stopState' = "resolved"
  /\ UNCHANGED <<sessions, connections, chanVars, msgVars, resp, toolVars>>
  /\ UNCHANGED otherVars

\* ------------------------------------------------------------ tool calls
\* The tools of every server instance are the same module-level handlers
\* (registerToolsOnServer), which share one DocumentationService and the
\* flag servicesInitialized.  A tool call is an invocation of handleGetTopics
\* that came in through some session.

\* The .txt files of the data directory, in readdir order, named by the
\* topic id each one yields.
StoredFiles == [i \in 1..MaxTopic |-> i]

\* The listing of a response that reports a failure instead of topics.
Failed == 0

\* documentationService.getAvailableTopics(): ensureInitialized() throws
\* unless initialized; otherwise a copy of the catalog.  The handler turns
\* the throw into an error response.
GetAvailableTopics == IF initialized THEN topics ELSE <<Failed>>

\* The text of a response: createSuccessResponse(text), or
\* createErrorResponse with the message of the handler.
Success     == "success"
ErrTopics   == "Failed to get documentation topics"
ErrContent  == "Failed to get topic content"
ErrNotFound == "not found or has no content"
ErrScrape   == "Failed to scrape website"
Threw       == "threw"        \* no response: the handler's promise rejected

\* The catch clause of handler k: the error becomes an error response.
\* (CatchRethrows: a faulty variant that lets the error out of the handler.)
CatchRethrows(k) == Threw
Catch(k) ==
  CASE k = "topics"  -> ErrTopics
    [] k = "content" -> ErrContent
    [] k = "scrape"  -> ErrScrape

\* The topic ids a client may ask for: those of the files, and one that no
\* file yields.
UnknownTopic == MaxTopic + 1
TopicIds == (1..MaxTopic) \cup {UnknownTopic}

\* documentationService.getTopicById(id): the topic, or null.
GetTopicById(id) == \E i \in DOMAIN topics : topics[i] = id

\* What fs.readFile of a content file may do, and what getTopicContent
\* returns then: the text (which may be empty), or null when the read fails.
ReadOutcomes == {"text", "empty", "unreadable"}
GetTopicContent(out) == IF out = "unreadable" THEN "null" ELSE out

\* handleGetTopicContent after getTopicContent has returned: if (!content).
ContentResponse(content) == IF content \in {"null", "empty"} THEN ErrNotFound ELSE Success

\* handleGetTopics up to its first suspension: ensureServicesInitialized()
\* returns at once if the flag is set, and otherwise enters
\* documentationService.initialize(), which awaits mkdir and readdir.
ToolCall(t, c) ==
  /\ tpc[t] = "idle"
  /\ \A u \in Call : u < t => tpc[u] # "idle"     \* calls are numbered by arrival
  /\ tsess' = [tsess EXCEPT ![t] = c]
  /\ tkind' = [tkind EXCEPT ![t] = "topics"]
  /\ IF servicesInitialized
     THEN /\ tpc' = [tpc EXCEPT ![t] = "done"]
          /\ tresult' = [tresult EXCEPT ![t] = GetAvailableTopics]
          /\ tresp' = [tresp EXCEPT ![t] =
                         IF initialized
                         THEN [cause |-> "none", text |-> Success]
                         ELSE [cause |-> "notInitialized", text |-> Catch("topics")]]
     ELSE /\ tpc' = [tpc EXCEPT ![t] = "initializing"]
          /\ UNCHANGED <<tresult, tresp>>
  /\ UNCHANGED <<server, stopState, sessions, connections, chanVars, msgVars, resp,
                 servicesInitialized, initialized, topics, tpos, targ>>
  /\ UNCHANGED otherVars

\* loadTopicsFromFilesystem of call t: the next readFile resolved and the
\* topic parsed from it is pushed onto the catalog.
ToolLoadFile(t) ==
  /\ tpc[t] = "initializing"
  /\ tpos[t] < Len(StoredFiles)
  /\ topics' = Append(topics, StoredFiles[tpos[t] + 1])
  /\ tpos' = [tpos EXCEPT ![t] = @ + 1]
  /\ UNCHANGED <<server, stopState, sessions, connections, chanVars, msgVars, resp,
                 servicesInitialized, initialized, tpc, tsess, tresult,
                 tkind, targ, tresp>>
  /\ UNCHANGED otherVars

\* The loop of call t is over: initialize() sets initialized (the catalog is
\* not empty, so no default topics are added), ensureServicesInitialized sets
\* the flag, and the handler goes on: handleGetTopics lists the catalog,
\* handleGetTopicContent looks the topic up and, if it exists, starts to
\* read its content file.
ToolInitialized(t) ==
  /\ tpc[t] = "initializing"
  /\ tpos[t] = Len(StoredFiles)
  /\ topics # <<>>
  /\ initialized' = TRUE
  /\ servicesInitialized' = TRUE
  /\ IF tkind[t] = "topics"
     THEN /\ tresult' = [tresult EXCEPT ![t] = topics]
          /\ tresp' = [tresp EXCEPT ![t] = [cause |-> "none", text |-> Success]]
          /\ tpc' = [tpc EXCEPT ![t] = "done"]
     ELSE /\ IF GetTopicById(targ[t])
             THEN /\ tpc' = [tpc EXCEPT ![t] = "reading"]
                  /\ UNCHANGED tresp
             ELSE /\ tpc' = [tpc EXCEPT ![t] = "done"]
                  /\ tresp' = [tresp EXCEPT ![t] =
                                 [cause |-> "unknownTopic",
                                  text |-> ContentResponse("null")]]
          /\ UNCHANGED tresult
  /\ UNCHANGED <<server, stopState, sessions, connections, chanVars, msgVars, resp,
                 topics, tsess, tpos, tkind, targ>>
  /\ UNCHANGED otherVars

\* fs.mkdir of initialize() rejects in call t: initialize() rethrows, the
\* flag stays unset and the catch clause of the handler answers.
ToolInitFailed(t) ==
  /\ tpc[t] = "initializing"
  /\ tpos[t] = 0
  /\ tpc' = [tpc EXCEPT ![t] = "done"]
  /\ tresp' = [tresp EXCEPT ![t] = [cause |-> "initFailed", text |-> Catch(tkind[t])]]
  /\ UNCHANGED <<sseVars, otherVars, servicesInitialized, initialized, topics,
                 tsess, tpos, tresult, tkind, targ>>

\* handleGetTopicContent({topicId: id}) up to its first suspension: as
\* handleGetTopics, then getTopicContent(id), which throws unless the
\* service is initialized, returns null for an unknown id and otherwise
\* awaits readFile.
ContentCall(t, c, id) ==
  /\ tpc[t] = "idle"
  /\ \A u \in Call : u < t => tpc[u] # "idle"
  /\ tsess' = [tsess EXCEPT ![t] = c]
  /\ tkind' = [tkind EXCEPT ![t] = "content"]
  /\ targ' = [targ EXCEPT ![t] = id]
  /\ IF ~servicesInitialized
     THEN /\ tpc' = [tpc EXCEPT ![t] = "initializing"]
          /\ UNCHANGED tresp
     ELSE IF ~initialized
     THEN /\ tpc' = [tpc EXCEPT ![t] = "done"]
          /\ tresp' = [tresp EXCEPT ![t] =
                         [cause |-> "notInitialized", text |-> Catch("content")]]
     ELSE IF GetTopicById(id)
     THEN /\ tpc' = [tpc EXCEPT ![t] = "reading"]
          /\ UNCHANGED tresp
     ELSE /\ tpc' = [tpc EXCEPT ![t] = "done"]
          /\ tresp' = [tresp EXCEPT ![t] =
                         [cause |-> "unknownTopic", text |-> ContentResponse("null")]]
  /\ UNCHANGED <<sseVars, otherVars, servicesInitialized, initialized, topics,
                 tpos, tresult>>

\* readFile of the content file of call t is over with outcome out.
ContentRead(t, out) ==
  /\ tpc[t] = "reading"
  /\ tpc' = [tpc EXCEPT ![t] = "done"]
  /\ tresp' = [tresp EXCEPT ![t] =
                 [cause |-> IF out = "text" THEN "none" ELSE out,
                  text |-> ContentResponse(GetTopicContent(out))]]
  /\ UNCHANGED <<sseVars, otherVars, servicesInitialized, initialized, topics,
                 tsess, tpos, tresult, tkind, targ>>

\* handleScrapeWebsite up to its suspension: it awaits
\* scrapingService.scrapeWebsite.
ScrapeCall(t, c) ==
  /\ tpc[t] = "idle"
  /\ \A u \in Call : u < t => tpc[u] # "idle"
  /\ tsess' = [tsess EXCEPT ![t] = c]
  /\ tkind' = [tkind EXCEPT ![t] = "scrape"]
  /\ tpc' = [tpc EXCEPT ![t] = "scraping"]
  /\ UNCHANGED <<sseVars, otherVars, servicesInitialized, initialized, topics,
                 tpos, tresult, targ, tresp>>

\* scrapeWebsite of call t is over: it returned its result, or it threw
\* 'Failed to scrape ...' because a fetch failed.
ScrapeOutcomes == {"returned", "fetchFailed"}
ScrapeDone(t, out) ==
  /\ tpc[t] = "scraping"
  /\ tpc' = [tpc EXCEPT ![t] = "done"]
  /\ tresp' = [tresp EXCEPT ![t] =
                 IF out = "returned"
                 THEN [cause |-> "none", text |-> Success]
                 ELSE [cause |-> out, text |-> Catch("scrape")]]
  /\ UNCHANGED <<sseVars, otherVars, servicesInitialized, initialized, topics,
                 tsess, tpos, tresult, tkind, targ>>

\* ------------------------------------------------- parseArgs, the loop
\* parseArgs is called with argument list a.
CliStart(a) ==
  /\ cliState = "idle"
  /\ args' = a
  /\ argi' = 1
  /\ options' = DefaultOptions
  /\ cliState' = "parsing"
  /\ UNCHANGED <<cliError, sseVars, toolVars, crawlVars>>

\* One iteration of the loop of parseArgs, or its return after the last.
ParseArg ==
  /\ cliState = "parsing"
  /\ IF argi > Len(args)
     THEN /\ cliState' = "returned"
          /\ UNCHANGED <<options, cliError, argi>>
     ELSE LET arg  == args[argi]
              name == SplitEq0(arg)
          IN  CASE name \in {StrTransport, StrT} ->
                     IF SplitEq1(arg) \in {StrStdio, StrSse}
                     THEN /\ options' = [options EXCEPT !.transport = SplitEq1(arg)]
                          /\ argi' = argi + 1
                          /\ UNCHANGED <<cliState, cliError>>
                     ELSE /\ cliState' = "threw"
                          /\ cliError' = "Invalid transport"
                          /\ UNCHANGED <<options, argi>>
                [] name \in {StrPort, StrP} ->
                     IF InvalidPort(ParseInt(SplitEq1(arg)))
                     THEN /\ cliState' = "threw"
                          /\ cliError' = "Invalid port"
                          /\ UNCHANGED <<options, argi>>
                     ELSE /\ options' = [options EXCEPT !.port = ParseInt(SplitEq1(arg)).val]
                          /\ argi' = argi + 1
                          /\ UNCHANGED <<cliState, cliError>>
                [] name = StrHelp ->
                     /\ options' = [options EXCEPT !.help = TRUE]
                     /\ argi' = argi + 1
                     /\ UNCHANGED <<cliState, cliError>>
                [] OTHER ->
                     IF StartsWithDash(arg)
                     THEN /\ cliState' = "threw"
                          /\ cliError' = "Unknown option"
                          /\ UNCHANGED <<options, argi>>
                     ELSE /\ argi' = argi + 1
                          /\ UNCHANGED <<options, cliState, cliError>>
  /\ UNCHANGED <<args, sseVars, toolVars, crawlVars>>

\* -------------------------------------------------------- scrapeWebsite
\* src/src/services/scrapingService.ts.  The site has the pages 1..MaxPage;
\* Lookalike is a page of another origin whose URL starts with the text of
\* the site's origin (https://site.example.org for https://site.example),
\* External a page of an unrelated origin.  A URL is a page and a spelling:
\* "href" is the serialisation that new URL(...).href gives, "typed" any
\* other spelling of the same URL (https://site.example for
\* https://site.example/), which only the caller of scrapeWebsite can supply.
Lookalike == MaxPage + 1
External  == MaxPage + 2
Fragment  == 0              \* an href that starts with '#'
Targets   == (1..MaxPage) \cup {Lookalike, External, Fragment}
Page(u)   == u[1]

\* new URL(href, currentUrl).href for an href that leads to page t
Href(t) == <<t, "href">>

\* link.startsWith(rootUrl), rootUrl being the origin of the start URL
StartsWithRoot(u) == Page(u) \in (1..MaxPage) \cup {Lookalike}

\* The hrefs of the a[href] elements of the page that url u delivers, in
\* document order (pages outside the site carry no links here).
RECURSIVE SortedSeq(_)
SortedSeq(S) ==
  IF S = {} THEN <<>>
  ELSE LET least == CHOOSE x \in S : \A y \in S : x <= y
       IN  <<least>> \o SortedSeq(S \ {least})
HrefsOf(u) == IF Page(u) \in 1..MaxPage THEN SortedSeq(graph[Page(u)]) ELSE <<>>

\* internalLinks: the hrefs that do not start with '#', resolved against the
\* current URL, those kept that start with rootUrl.
InternalLinks(u) ==
  LET hrefs == SelectSeq(HrefsOf(u), LAMBDA t : t # Fragment)
      links == [i \in 1..Len(hrefs) |-> Href(hrefs[i])]
  IN  SelectSeq(links, StartsWithRoot)

\* options.maxDepth ?? 1 and options.followLinks ?? false
NoDepth == 0
DefaultMaxDepth == 1
MaxDepthOf(d) == IF d = NoDepth THEN DefaultMaxDepth ELSE d
FollowLinksOf(f) == f = "true"

\* A pending call scrapePage(url, depth).  Its phases: "call" (not yet
\* entered), "fetching" (awaiting axios.get), "links" (in the loop over
\* internalLinks, links being the part still to do).
Frame(u, d) == [url |-> u, depth |-> d, phase |-> "call", links |-> <<>>]
Top == stack[Len(stack)]
Pop == SubSeq(stack, 1, Len(stack) - 1)
ReplaceTop(fr) == [stack EXCEPT ![Len(stack)] = fr]

\* scrapeWebsite({url: u, options: {maxDepth: d, followLinks: f}}) on a site
\* whose pages link as g says: the constants of lines 11-19, then the call
\* scrapePage(url, 1).
CrawlStart(g, u, d, f) ==
  /\ cpc = "idle"
  /\ graph' = g
  /\ copts' = [url |-> u, maxDepth |-> MaxDepthOf(d), followLinks |-> FollowLinksOf(f)]
  /\ visited' = {}
  /\ fetched' = <<>>
  /\ linksCollected' = {}
  /\ stack' = <<Frame(u, 1)>>
  /\ cpc' = "running"
  /\ UNCHANGED <<sseVars, toolVars, cliVars>>

\* The innermost call has returned: its caller goes on, or scrapeWebsite
\* returns its result.
Return(st) ==
  /\ stack' = st
  /\ cpc' = IF st = <<>> THEN "returned" ELSE cpc

\* scrapePage up to its await: the guard of line 22, visited.add, and the
\* request axios.get(currentUrl).
CrawlEnter ==
  /\ cpc = "running" /\ Top.phase = "call"
  /\ IF Top.depth > copts.maxDepth \/ Top.url \in visited
     THEN /\ Return(Pop)
          /\ UNCHANGED <<visited, fetched>>
     ELSE /\ visited' = visited \cup {Top.url}
          /\ fetched' = Append(fetched, [url |-> Top.url, depth |-> Top.depth])
          /\ stack' = ReplaceTop([Top EXCEPT !.phase = "fetching"])
          /\ UNCHANGED cpc
  /\ UNCHANGED <<graph, copts, linksCollected, sseVars, toolVars, cliVars>>

\* axios.get resolved: the page is read and, if links are followed and the
\* depth allows it, internalLinks is computed.
CrawlFetched ==
  /\ cpc = "running" /\ Top.phase = "fetching"
  /\ stack' = ReplaceTop([Top EXCEPT
                  !.phase = "links",
                  !.links = IF copts.followLinks /\ Top.depth < copts.maxDepth
                            THEN InternalLinks(Top.url) ELSE <<>>])
  /\ UNCHANGED <<cpc, graph, copts, visited, fetched, linksCollected,
                 sseVars, toolVars, cliVars>>

\* axios.get rejected: the error leaves every pending scrapePage and the
\* catch of scrapeWebsite throws 'Failed to scrape ...'.
CrawlFetchFailed ==
  /\ cpc = "running" /\ Top.phase = "fetching"
  /\ stack' = <<>>
  /\ cpc' = "threw"
  /\ UNCHANGED <<graph, copts, visited, fetched, linksCollected,
                 sseVars, toolVars, cliVars>>

\* One turn of the loop over internalLinks, or its end.
CrawlNextLink ==
  /\ cpc = "running" /\ Top.phase = "links"
  /\ IF Top.links = <<>>
     THEN /\ Return(Pop)
          /\ UNCHANGED linksCollected
     ELSE /\ linksCollected' = linksCollected \cup {Head(Top.links)}
          /\ stack' = Append(ReplaceTop([Top EXCEPT !.links = Tail(@)]),
                             Frame(Head(Top.links), Top.depth + 1))
          /\ UNCHANGED cpc
  /\ UNCHANGED <<graph, copts, visited, fetched, sseVars, toolVars, cliVars>>

\* links of the result: followLinks ? Array.from(linksCollected) : undefined
ResultLinks == IF copts.followLinks THEN linksCollected ELSE {}

\* ------------------------------------------------- every other request
\* A request that is neither GET nor POST on the SSE path: it is answered
\* at once, by the else branch of handleSSEConnection (405) or by Express.
Request(p, me) ==
  /\ server = "listening"
  /\ ~(Dispatch(p, me) = "sse" /\ me \in {"GET", "POST"})
  /\ resp' = Answer(p, me)
  /\ UNCHANGED <<server, stopState, sessions, connections, chanVars, msgVars, toolVars>>
  /\ UNCHANGED otherVars

Next ==
  \/ Start
  \/ \E c \in Chan, o \in OpenOutcomes, id \in Ids \cup {NoId} : GetOpen(c, o, id)
  \/ \E c \in Chan, r \in Chan \cup {Undefined} : GetConnected(c, r)
  \/ \E c \in Chan : GetConnectFailed(c)
  \/ \E c \in Chan, s \in Signals : Signal(c, s)
  \/ \E m \in Msg, id \in Ids \cup {NoId} : PostArrive(m, id)
  \/ \E m \in Msg, o \in PostOutcomes : PostFinish(m, o)
  \/ Stop
  \/ StopResolved

Spec == Init /\ [][Next]_vars

\* The session lifecycle alone: the requests and events that write the two
\* maps.  The POST branch leaves both maps and every channel unchanged, so
\* it is left out where a claim is about the lifecycle only.
NextSessions ==
  \/ Start
  \/ \E c \in Chan, o \in OpenOutcomes, id \in Ids \cup {NoId} : GetOpen(c, o, id)
  \/ \E c \in Chan, r \in Chan \cup {Undefined} : GetConnected(c, r)
  \/ \E c \in Chan : GetConnectFailed(c)
  \/ \E c \in Chan, s \in Signals : Signal(c, s)
  \/ Stop
  \/ StopResolved

SpecSessions == Init /\ [][NextSessions]_vars

\* The same steps, with the scheduling the event loop guarantees: the
\* callback of server.close() runs once the last connection has ended.
\* Nothing obliges a client to disconnect or a caller to call stop().
SpecStop == Init /\ [][NextSessions]_vars /\ WF_vars(StopResolved)

\* The front door: the lifecycle, one control message and the requests
\* that are neither an open nor a message.
NextFront ==
  \/ Start
  \/ \E c \in Chan, o \in OpenOutcomes, id \in Ids \cup {NoId} : GetOpen(c, o, id)
  \/ \E c \in Chan, r \in Chan \cup {Undefined} : GetConnected(c, r)
  \/ \E c \in Chan : GetConnectFailed(c)
  \/ \E c \in Chan, s \in Signals : Signal(c, s)
  \/ \E id \in Ids \cup {NoId} : PostArrive(1, id)
  \/ \E o \in PostOutcomes : PostFinish(1, o)
  \/ \E p \in Paths, me \in Methods : Request(p, me)
  \/ Stop
  \/ StopResolved

SpecFront == Init /\ [][NextFront]_vars

\* The lifecycle when the id of a new transport may equal an id that is
\* already registered: the case in which sessions.set meets a present key.
NextDuplicateId ==
  \/ Start
  \/ \E c \in Chan, o \in OpenOutcomes, id \in Ids \cup {NoId} : OpenSession(c, o, id)
  \/ \E c \in Chan, r \in Chan \cup {Undefined} : GetConnected(c, r)
  \/ \E c \in Chan : GetConnectFailed(c)
  \/ \E c \in Chan, s \in Signals : Signal(c, s)
  \/ Stop
  \/ StopResolved

SpecDuplicateId == Init /\ [][NextDuplicateId]_vars

\* The tool calls alone.
NextTools ==
  \/ \E t \in Call, c \in Chan : ToolCall(t, c)
  \/ \E t \in Call : ToolLoadFile(t)
  \/ \E t \in Call : ToolInitialized(t)

SpecTools == Init /\ [][NextTools]_vars

\* The three tool handlers, with the failures of the services they call.
NextHandlers ==
  \/ \E t \in Call, c \in Chan : ToolCall(t, c)
  \/ \E t \in Call, c \in Chan, id \in TopicIds : ContentCall(t, c, id)
  \/ \E t \in Call, c \in Chan : ScrapeCall(t, c)
  \/ \E t \in Call : ToolLoadFile(t)
  \/ \E t \in Call : ToolInitialized(t)
  \/ \E t \in Call : ToolInitFailed(t)
  \/ \E t \in Call, out \in ReadOutcomes : ContentRead(t, out)
  \/ \E t \in Call, out \in ScrapeOutcomes : ScrapeDone(t, out)

SpecHandlers == Init /\ [][NextHandlers]_vars

\* One invocation of parseArgs.
NextCli ==
  \/ \E a \in ArgLists : CliStart(a)
  \/ ParseArg

SpecCli == Init /\ [][NextCli]_vars

\* One call of scrapeWebsite.  A request that was sent is answered or fails,
\* and a continuation that can run is run: the steps of a crawl that has
\* started are taken as long as one is possible.
CrawlStep == CrawlEnter \/ CrawlFetched \/ CrawlFetchFailed \/ CrawlNextLink
NextCrawl ==
  \/ /\ cpc = "idle"
     /\ \E g \in [1..MaxPage -> SUBSET Targets], u \in {<<1, "href">>, <<1, "typed">>},
           d \in {NoDepth} \cup (1..MaxDepth), f \in {"absent", "true", "false"} :
             CrawlStart(g, u, d, f)
  \/ CrawlEnter
  \/ CrawlFetched
  \/ CrawlFetchFailed
  \/ CrawlNextLink

SpecCrawl == Init /\ [][NextCrawl]_vars /\ WF_vars(CrawlStep)

TypeOK ==
  /\ server \in {"null", "listening", "closing", "closed"}
  /\ stopState \in {"none", "pending", "resolved", "rejected"}
  /\ sessions \subseteq (Ids \X Chan)
  /\ \A i \in DOMAIN connections : connections[i] \in Ids \X (Chan \cup {Undefined})
  /\ gpc \in [Chan -> {"idle", "connecting", "established", "failed"}]
  /\ stream \in [Chan -> {"none", "open", "closed"}]
  /\ inst \in [Chan -> {"none", "created", "connected", "closed"}]
  /\ mpc \in [Msg -> {"idle", "processing", "done"}]
  /\ \A c \in Chan : \A i \in DOMAIN wlog[c] :
        wlog[c][i] \in {"handshake", "reply", "comment"} \X (Ids \cup {NoId})
  /\ bound \in [Chan -> {NoInst, MainServer} \cup Chan]

\* ------------------------------------------------------------ vocabulary
Registered(c)  == sid[c] # NoId /\ MapHas(sessions, sid[c])
Completed      == {c \in Chan : gpc[c] = "established"}
Disconnected   == {c \in Completed : fired[c] > 0}
Arrives(m)     == mpc[m] = "idle" /\ mpc'[m] # "idle"
Finishes(m)    == mpc[m] = "processing" /\ mpc'[m] = "done"
TornDown(c)    == fired'[c] > fired[c]

\* ------------------------------------------------------------------- C1
\* The runs C1 speaks of: every open that arrived has completed while its
\* client was still there, every disconnect came after that, and stop() has
\* not been called.
C1_Scope ==
  /\ stopState = "none"
  /\ \A c \in Chan : /\ gpc[c] \in {"idle", "established"}
                     /\ stream[c] = "closed" => fired[c] > 0

\* C1: after N push-channel opens have completed the registry holds N
\* entries, and after k of those channels have disconnected, in any order,
\* it holds N - k.
C1_SessionCount ==
  C1_Scope => MapSize(sessions) = Cardinality(Completed) - Cardinality(Disconnected)

C1_Witness ==
  /\ C1_Scope
  /\ Cardinality(Completed) = 2
  /\ Cardinality(Disconnected) = 1
  /\ MapSize(sessions) = 1

\* ------------------------------------------------------------------- C2
\* C2: teardown is idempotent.  Whichever signals the listeners of a channel
\* handle, and however many, each run removes nothing but that channel's own
\* entry, one entry is removed in all, and the entry stays absent.
C2_IdempotentTeardown ==
  /\ [](\A c \in Chan :
          /\ torn[c] <= 1
          /\ fired[c] > 0 => /\ ~Registered(c)
                             /\ stopState \in {"none", "rejected"} => torn[c] = 1)
  /\ [][\A c \in Chan : TornDown(c) => sessions' = sessions \ {<<sid[c], c>>}]_vars

C2_Witness ==
  \E c, d \in Chan :
    /\ c # d
    /\ fired[c] = 2
    /\ torn[c] = 1
    /\ ~Registered(c)
    /\ gpc[d] = "established" /\ Registered(d) /\ fired[d] = 0

\* ------------------------------------------------------------------- C3
\* C3: a session is in the registry if and only if its push channel is
\* open, in every reachable state.
C3_RegisteredIffOpen ==
  \A c \in Chan : sid[c] # NoId => (Registered(c) <=> stream[c] = "open")

\* ------------------------------------------------------------------- C4
\* C4: a client disconnect or transport error on a push channel removes the
\* session from the registry whenever it occurs, also while the open is
\* awaiting connect(): once the open handler has run to its end, a channel
\* whose stream is over is not registered.
C4_DisconnectRemoves ==
  \A c \in Chan : (gpc[c] = "established" /\ stream[c] = "closed") => ~Registered(c)

\* ------------------------------------------------------------------- C5
\* C5: when the listeners of a channel have handled a close or error, the
\* session is out of the registry and the server instance bound to it has
\* been closed.
C5_TeardownReleases ==
  \A c \in Chan : fired[c] > 0 => (~Registered(c) /\ inst[c] = "closed")

\* ------------------------------------------------------------------- C6
\* C6: a control message without sessionId is answered 400 and makes no
\* registry access: no lookup, no hand-over, both maps unchanged.
C6_MissingSessionId ==
  /\ [](\A m \in Msg :
          (mpc[m] # "idle" /\ mid[m] = NoId) =>
             /\ mpc[m] = "done"
             /\ mstatus[m] = 400
             /\ mreads[m] = 0
             /\ handed[m] = <<>>)
  /\ [][\A m \in Msg :
          (Arrives(m) /\ mid'[m] = NoId) =>
             /\ sessions' = sessions
             /\ connections' = connections]_vars

C6_Witness ==
  \E m \in Msg : /\ mpc[m] = "done" /\ mid[m] = NoId /\ mstatus[m] = 400
                 /\ sessions # {}

\* ------------------------------------------------------------------- C7
\* C7: a control message whose sessionId is not in the registry is answered
\* 404; it is handed to no transport, creates no session and changes neither
\* the maps nor any channel.
C7_UnknownSession ==
  /\ [](\A m \in Msg :
          mstatus[m] = 404 => (mpc[m] = "done" /\ mid[m] # NoId /\ handed[m] = <<>>))
  /\ [][\A m \in Msg :
          (Arrives(m) /\ mid'[m] # NoId /\ ~MapHas(sessions, mid'[m])) =>
             /\ mstatus'[m] = 404
             /\ mpc'[m] = "done"
             /\ handed'[m] = <<>>
             /\ sessions' = sessions
             /\ connections' = connections
             /\ stream' = stream
             /\ inst' = inst]_vars

\* A 404 for the id of a session that was opened and torn down, while
\* another session is registered.
C7_Witness ==
  \E m \in Msg, c, d \in Chan :
    /\ mstatus[m] = 404
    /\ mid[m] = sid[c] /\ fired[c] > 0
    /\ c # d /\ Registered(d)

\* ------------------------------------------------------------------- C8
\* C8: when handlePostMessage throws for a registered session the request
\* is answered 500, the registry, the connections and every stream stay as
\* they were, and a message that arrives later for that session is still
\* handed to its transport.
C8_HandlerFailure ==
  [][\A m \in Msg :
       /\ (Finishes(m) /\ mout'[m] = "threw") =>
             /\ mstatus'[m] = 500
             /\ sessions' = sessions
             /\ connections' = connections
             /\ stream' = stream
             /\ inst' = inst
       /\ (/\ Arrives(m)
           /\ MapHas(sessions, mid'[m])
           /\ \E k \in Msg : mout[k] = "threw" /\ mid[k] = mid'[m]) =>
             /\ mpc'[m] = "processing"
             /\ handed'[m] = <<MapGet(sessions, mid'[m])>>]_vars

C8_Witness ==
  \E k, m \in Msg :
    /\ k < m
    /\ mout[k] = "threw" /\ mstatus[k] = 500
    /\ handed[m] = handed[k] /\ mout[m] = "accepted"
    /\ Registered(handed[k][1])
    /\ stream[handed[k][1]] = "open"

\* ------------------------------------------------------------------- C9
\* C9: a control message for a registered session is handed exactly once,
\* to the transport of the session whose id it carries and to no other.
C9_OwnTransportOnce ==
  /\ [](\A m \in Msg :
          /\ Len(handed[m]) <= 1
          /\ (mpc[m] = "processing" \/ mout[m] # "none") => Len(handed[m]) = 1
          /\ handed[m] # <<>> => sid[handed[m][1]] = mid[m])
  /\ [][\A m \in Msg :
          (Arrives(m) /\ MapHas(sessions, mid'[m])) =>
             handed'[m] = <<MapGet(sessions, mid'[m])>>]_vars

C9_Witness ==
  \E m \in Msg, c, d \in Chan :
    /\ c # d
    /\ Registered(c) /\ Registered(d)
    /\ gpc[c] = "established" /\ gpc[d] = "established"
    /\ handed[m] = <<c>> /\ mid[m] = sid[c] /\ mout[m] = "accepted"

C11_OneAtATime ==
  \A m, k \in Msg :
    (/\ m # k
     /\ mpc[m] = "processing" /\ mpc[k] = "processing"
     /\ gpc[handed[m][1]] = "established" /\ stream[handed[m][1]] = "open") =>
       handed[m] # handed[k]

\* ------------------------------------------------------------------ C12
\* C12: an open that fails, at whichever step, leaves no session registered
\* for it, and it is answered 500 unless the response was already committed
\* (then the failure is only logged and the committed status stays).
C12_FailedOpenLeavesNothing ==
  \A c \in Chan :
    gpc[c] = "failed" =>
       /\ ~Registered(c)
       /\ gstatus[c] = IF stream[c] = "none" THEN 500 ELSE 200

\* ------------------------------------------------------------------ C13
\* C13: the handshake, which carries the session id, is the first thing
\* written on a push channel: a stream that has been started has it, and
\* every other write on the stream (a reply to a control message of that
\* session) comes after it.
C13_HandshakeFirst ==
  \A c \in Chan :
    /\ stream[c] # "none" => wlog[c] # <<>>
    /\ wlog[c] # <<>> => wlog[c][1] = <<"handshake", sid[c]>>
    /\ \A i \in DOMAIN wlog[c] : i > 1 => wlog[c][i] = <<"reply", sid[c]>>

\* A reply was pushed on a channel, after its handshake, for a message that
\* had arrived while connect() was still pending.
C13_Witness ==
  \E c \in Chan, m \in Msg :
    /\ handed[m] = <<c>> /\ mout[m] = "accepted"
    /\ gpc[c] = "connecting"
    /\ wlog[c] = <<<<"handshake", sid[c]>>, <<"reply", sid[c]>>>>

\* ------------------------------------------------------------------ C14
\* C14: stop() drains before it releases the listener: once stop() has run,
\* every session that was open has been removed from the registry (the
\* registry is empty), and the listening socket is closed only after that.
C14_StopDrains ==
  /\ stopState # "none" => sessions = {}
  /\ server \in {"closing", "closed"} => sessions = {}

\* ------------------------------------------------------------------ C15
\* C15: no response is written twice.  On every path of the SSE handler
\* (missing id, unknown session, processing failure, failed open, wrong
\* method) at most one status line is written on a response, and an error
\* status is not sent over a response that was already committed: an open
\* that fails after its stream was started keeps its 200.
C15_WrittenOnce ==
  /\ \A m \in Msg : /\ mwrites[m] <= 1
                    /\ mwrites[m] = 1 <=> mstatus[m] # 0
  /\ \A c \in Chan : /\ gwrites[c] <= 1
                     /\ gwrites[c] = 1 <=> gstatus[c] # 0
                     /\ stream[c] # "none" => gstatus[c] = 200
  /\ resp.writes <= 1

\* An open failed after its stream was started, the processing of a message
\* failed, and a request with a wrong method was answered 405.
C15_Witness ==
  /\ \E c \in Chan : gpc[c] = "failed" /\ stream[c] # "none" /\ gwrites[c] = 1
  /\ \E m \in Msg : mout[m] = "threw" /\ mstatus[m] = 500 /\ mwrites[m] = 1
  /\ resp.handler = "sse" /\ resp.status = 405 /\ resp.writes = 1

C17_HealthCount ==
  [][/\ resp' # resp =>
          /\ sessions' = sessions
          /\ connections' = connections
     /\ (resp' # resp /\ resp'.handler = "health") =>
          /\ resp'.active = MapSize(sessions)
          /\ C1_Scope =>
               resp'.active = Cardinality(Completed) - Cardinality(Disconnected)
     /\ \A m \in Msg :
          (Arrives(m) /\ (mid'[m] = NoId \/ ~MapHas(sessions, mid'[m]))) =>
             MapSize(sessions') = MapSize(sessions)]_vars

\* /health reported one session after two opens had completed and one of
\* the two channels had disconnected, and a message with an unknown id had
\* been answered.
C17_Witness ==
  /\ resp.handler = "health" /\ resp.active = 1
  /\ C1_Scope
  /\ Cardinality(Completed) = 2 /\ Cardinality(Disconnected) = 1
  /\ MapSize(sessions) = 1
  /\ \E m \in Msg : mstatus[m] = 404

\* ------------------------------------------------------------------ C18
\* C18: inserting a session under an id that is already present fails and
\* does not replace the existing session: the open that brings the id fails
\* and the registry is as it was.
C18_DuplicateRejected ==
  [][\A c \in Chan :
       (/\ gpc[c] = "idle" /\ sid'[c] # NoId /\ MapHas(sessions, sid'[c])
        /\ \E d \in Chan : d # c /\ sid[d] = sid'[c] /\ stream[d] = "open") =>
          /\ sessions' = sessions
          /\ gpc'[c] = "failed"]_vars

\* ------------------------------------------------------------------ C19
\* C19: every open connects a server instance of its own: the instance
\* connected to a session's transport was constructed in that open, no
\* instance is connected to the transports of two sessions, and the instance
\* given to the constructor of SSETransportServer is connected to none.
C19_FreshInstance ==
  \A c \in Chan :
    /\ bound[c] # NoInst <=> inst[c] # "none"
    /\ bound[c] # NoInst =>
         /\ bound[c] = c
         /\ bound[c] # MainServer
         /\ \A d \in Chan : d # c => bound[d] # bound[c]

C19_Witness ==
  \E c, d \in Chan :
    /\ c # d
    /\ gpc[c] = "established" /\ gpc[d] = "established"
    /\ inst[c] = "connected" /\ inst[d] = "connected"
    /\ bound[c] # NoInst /\ bound[d] # NoInst /\ bound[c] # bound[d]

\* ------------------------------------------------------------------ C20
\* C20: the outcome of a tool call made through one session does not depend
\* on tool calls made through another session: whatever calls the other
\* sessions make, a call lists what it lists when it is the only call, the
\* topics of the data directory, each once.
C20_NoCrossSession ==
  \A t \in Call :
    (/\ tpc[t] = "done"
     /\ \A u \in Call : (u # t /\ tpc[u] # "idle") => tsess[u] # tsess[t]) =>
        tresult[t] = StoredFiles

\* ------------------------------------------------------------------ C21
\* C21: when the push channel of an established session closes while a
\* control message of that session is being processed, the session is
\* removed in that very step and nothing else changes in the registry; no
\* other channel is disturbed; and when the processing ends afterwards, the
\* session is not put back.
InFlight(c) == \E m \in Msg : mpc[m] = "processing" /\ handed[m] = <<c>>

C21_CloseDuringProcessing ==
  [][/\ \A c \in Chan :
          (/\ gpc[c] = "established" /\ InFlight(c)
           /\ stream[c] = "open" /\ stream'[c] = "closed"
           /\ stopState' = stopState) =>
             /\ sessions' = sessions \ {<<sid[c], c>>}
             /\ ~MapHas(sessions', sid[c])
             /\ \A d \in Chan : d # c => (stream'[d] = stream[d] /\ inst'[d] = inst[d])
             /\ mpc' = mpc
     /\ \A m \in Msg : Finishes(m) => sessions' = sessions]_vars

\* The channel of a session was torn down while its message was being
\* processed; the message is still in flight and another session is intact.
C21_Witness ==
  \E c, d \in Chan :
    /\ c # d
    /\ fired[c] > 0 /\ ~Registered(c) /\ InFlight(c)
    /\ Registered(d) /\ stream[d] = "open" /\ gpc[d] = "established"

\* ------------------------------------------------------------------ C22
\* The invocation forms of the help text, an option followed by its value
\* as a separate argument, and what the help text says each one selects.
Str8080    == <<"8", "0", "8", "0">>
StrHost    == <<"-", "-", "h", "o", "s", "t">>
StrAnyHost == <<"0", ".", "0", ".", "0", ".", "0">>
Documented(a) ==
  CASE a = <<>>                     -> DefaultOptions
    [] a = <<StrTransport, StrSse>> -> [DefaultOptions EXCEPT !.transport = StrSse]
    [] a = <<StrT, StrSse>>         -> [DefaultOptions EXCEPT !.transport = StrSse]
    [] a = <<StrPort, Str8080>>     -> [DefaultOptions EXCEPT !.port = 8080]
    [] a = <<StrP, Str8080>>        -> [DefaultOptions EXCEPT !.port = 8080]
    [] a = <<StrHost, StrAnyHost>>  -> [DefaultOptions EXCEPT !.host = StrAnyHost]
DocumentedForms ==
  {<<>>, <<StrTransport, StrSse>>, <<StrT, StrSse>>, <<StrPort, Str8080>>,
   <<StrP, Str8080>>, <<StrHost, StrAnyHost>>}

\* C22: parseArgs accepts every invocation form of the help text: once it
\* is over on one of them, it has returned, without an error, the options the
\* help text documents for that form.
C22_DocumentedForms ==
  (cliState \in {"returned", "threw"} /\ args \in DocumentedForms) =>
     /\ cliState = "returned"
     /\ cliError = "none"
     /\ options = Documented(args)

\* ------------------------------------------------------------------ C24
\* A port value is a number when it is a decimal numeral, with or without
\* a sign; it is a valid port when that number lies in 1..65535.
IsNumeral(str) ==
  LET from == IF str # <<>> /\ str[1] \in {"-", "+"} THEN 2 ELSE 1
  IN  /\ from <= Len(str)
      /\ \A i \in from..Len(str) : str[i] \in Digits
ValidPortValue(str) ==
  /\ IsNumeral(str)
  /\ str[1] \notin {"-"}
  /\ NumVal(IF str[1] = "+" THEN Tail(str) ELSE str) \in MinPort..MaxPort
KnownOptions == {StrTransport, StrT, StrPort, StrP, StrHelp}

\* C24: the port of the options is always an integer in 1..65535; every
\* port argument parseArgs has gone past carried a valid port value (one that
\* is missing, not a number or out of range raised 'Invalid port' instead);
\* and an argument starting with '-' that is no known option raised
\* 'Unknown option'.
C24_PortValidated ==
  /\ options.port # NoPort => options.port \in MinPort..MaxPort
  /\ \A j \in 1..Len(args) :
       (cliState # "idle" /\ j < argi /\ SplitEq0(args[j]) \in {StrPort, StrP}) =>
          ValidPortValue(SplitEq1(args[j]))
  /\ cliState = "threw" =>
       /\ SplitEq0(args[argi]) \in {StrPort, StrP} => cliError = "Invalid port"
       /\ (StartsWithDash(args[argi]) /\ SplitEq0(args[argi]) \notin KnownOptions) =>
             cliError = "Unknown option"

\* ------------------------------------------------------------------ C23
\* C23: a request on the SSE path whose method is neither GET nor POST is
\* answered, once, with 405 'Method not allowed', and the step that answers
\* it leaves both maps and every channel as they were; and a step that adds
\* a session to the registry is the open of a push channel (a GET on the SSE
\* path), never the arrival or the end of a message or another request.
C23_MethodNotAllowed ==
  [][/\ (resp' # resp /\ resp'.path = SsePath) =>
          /\ resp'.method \notin {"GET", "POST"}
          /\ resp'.status = 405
          /\ resp'.error = "Method not allowed"
          /\ resp'.writes = 1
          /\ sessions' = sessions
          /\ connections' = connections
          /\ gpc' = gpc /\ sid' = sid
     /\ (sessions' \ sessions # {}) =>
          /\ resp' = resp
          /\ mpc' = mpc
          /\ \E c \in Chan : gpc[c] = "idle" /\ gpc'[c] # "idle"]_vars

\* DELETE on the SSE path was answered 405 while one session was registered
\* and its channel open.
C23_Witness ==
  /\ resp.path = SsePath /\ resp.method = "DELETE"
  /\ resp.status = 405 /\ resp.handler = "sse"
  /\ MapSize(sessions) = 1
  /\ \E c \in Chan : Registered(c) /\ stream[c] = "open"

\* ------------------------------------------------------------------ C25
\* C25: the sessions map and the connections map hold the same session ids
\* whenever no open is between its two insertions, and once the teardown of
\* a session has run neither map holds its id.
C25_MapsConsistent ==
  /\ (\A c \in Chan : gpc[c] # "connecting") => MapKeys(sessions) = ConnKeys(connections)
  /\ \A c \in Chan :
       torn[c] > 0 => (~MapHas(sessions, sid[c]) /\ ~ConnHas(connections, sid[c]))

\* ------------------------------------------------------------------ C26
\* C26: stop() always completes: its promise never rejects, and once
\* stop() has been called the promise is eventually resolved, whatever
\* channels were open and whether or not the server had been started.
C26_StopCompletes ==
  /\ [](stopState # "rejected")
  /\ (stopState # "none") ~> (stopState = "resolved")

\* ------------------------------------------------------------------ C27
\* The calls that have entered documentationService.initialize().
Initializers == {t \in Call : tpc[t] = "initializing" \/ tpos[t] > 0}

\* C27: the documentation service is initialised at most once per process:
\* at most one call ever runs initialize(), also when calls overlap, and
\* the topic catalog never holds the same topic id twice.
C27_InitializedOnce ==
  /\ Cardinality(Initializers) <= 1
  /\ \A i, j \in DOMAIN topics : i # j => topics[i] # topics[j]

\* ------------------------------------------------------------------ C28
Responses == {Success, ErrTopics, ErrContent, ErrNotFound, ErrScrape}

\* C28: no tool handler throws: every call that is over has a text response;
\* when something failed in the services (initialisation, the topic lookup,
\* the read of the content file, a fetch) the response is an error text of
\* that handler; when nothing failed it is the success response; and a call
\* for an unknown topic id on an initialised service gets 'not found or has
\* no content'.
C28_NeverThrows ==
  \A t \in Call :
    /\ tresp[t].text # Threw
    /\ tpc[t] = "done" =>
         /\ tresp[t].text \in Responses
         /\ tresp[t].cause = "none" <=> tresp[t].text = Success
         /\ tresp[t].cause # "none" =>
              tresp[t].text \in
                CASE tkind[t] = "topics"  -> {ErrTopics}
                  [] tkind[t] = "content" -> {ErrContent, ErrNotFound}
                  [] tkind[t] = "scrape"  -> {ErrScrape}
         /\ tresp[t].cause \in {"unknownTopic", "unreadable", "empty"} =>
              tresp[t].text = ErrNotFound
         /\ (tkind[t] = "content" /\ targ[t] = UnknownTopic /\ initialized
             /\ tresp[t].cause # "initFailed") =>
              tresp[t].text = ErrNotFound

\* One call failed in initialize() and was answered with the error text of
\* its handler; a later call asked for an unknown topic id and was answered
\* 'not found or has no content'.
C28_Witness ==
  \E t, u \in Call :
    /\ tpc[t] = "done" /\ tresp[t].cause = "initFailed"
    /\ tresp[t].text = ErrContent
    /\ tpc[u] = "done" /\ tkind[u] = "content" /\ targ[u] = UnknownTopic
    /\ tresp[u].cause = "unknownTopic" /\ tresp[u].text = ErrNotFound

\* ------------------------------------------------------------------ C29
\* C29: the crawl of scrapeWebsite terminates on every finite link graph,
\* cycles included; no URL is fetched twice (two requests never go to the
\* same page); no page is fetched at a depth above maxDepth; a link is
\* followed only when followLinks is set; and every link followed or
\* reported starts with the origin of the start URL.
C29_CrawlBounded ==
  /\ [](/\ \A i, j \in DOMAIN fetched :
              i # j => Page(fetched[i].url) # Page(fetched[j].url)
        /\ \A i \in DOMAIN fetched : fetched[i].depth <= copts.maxDepth
        /\ ~copts.followLinks => \A i \in DOMAIN fetched : fetched[i].depth = 1
        /\ \A i \in DOMAIN fetched :
              fetched[i].depth > 1 => StartsWithRoot(fetched[i].url)
        /\ \A u \in ResultLinks : StartsWithRoot(u))
  /\ (cpc = "running") ~> (cpc \in {"returned", "threw"})

====
